---- MODULE Spec2Model ----
(***************************************************************************)
(* Model of monthly_data_loader.py: the monthly gate (should_run_monthly), *)
(* the run-state file last_run.txt (read_last_run_time and                 *)
(* write_last_run_time), and the pipeline save_data_monthly with its       *)
(* fetch, snapshot write, credential check and warehouse load.             *)
(*                                                                         *)
(* Texts (file contents, file names) are sequences of one-character        *)
(* strings; a datetime is a record of its calendar fields, as in Python.   *)
(***************************************************************************)
EXTENDS Integers, Sequences, FiniteSets, TLC

(***************************************************************************)
(* Bounds of the model.                                                    *)
(***************************************************************************)
\* Number of invocations of the script that are started.
MaxRuns == 2
\* Number of times the wall clock is advanced.
MaxTicks == 2

(***************************************************************************)
(* Program constants.                                                      *)
(***************************************************************************)
\* should_run_monthly: delta.days >= 30
IntervalDays == 30

SecondsPerDay == 24 * 60 * 60
MicrosPerSecond == 1000 * 1000
(***************************************************************************)
(* Characters and decimal digits.                                          *)
(***************************************************************************)
Digits == <<"0", "1", "2", "3", "4", "5", "6", "7", "8", "9">>

DigitChar(d) == Digits[d + 1]

IsDigit(c) == \E d \in 0..9 : Digits[d + 1] = c

CharDigit(c) == CHOOSE d \in 0..9 : Digits[d + 1] = c

Pow10(k) == IF k = 0 THEN 1 ELSE IF k = 1 THEN 10 ELSE IF k = 2 THEN 100
            ELSE IF k = 3 THEN 1000 ELSE IF k = 4 THEN 10000
            ELSE IF k = 5 THEN 100000 ELSE 1000000

\* "%0<w>d" % n
ZeroPad(n, w) == [i \in 1..w |-> DigitChar((n \div Pow10(w - i)) % 10)]

AllDigits(s) == \A i \in 1..Len(s) : IsDigit(s[i])

\* int(s) for a text of decimal digits
ParseInt(s) ==
    LET RECURSIVE Acc(_, _)
        Acc(i, v) == IF i > Len(s) THEN v ELSE Acc(i + 1, 10 * v + CharDigit(s[i]))
    IN Acc(1, 0)

\* s[a:b] in Python's 0-based, end-exclusive slicing
Slice(s, a, b) == IF b <= a THEN <<>> ELSE SubSeq(s, a + 1, b)

IsSpace(c) == c \in {" ", "\n", "\t", "\r"}

\* str.strip()
Strip(s) ==
    LET idx == {i \in 1..Len(s) : ~IsSpace(s[i])}
    IN IF idx = {} THEN <<>>
       ELSE LET lo == CHOOSE i \in idx : \A j \in idx : i <= j
                hi == CHOOSE i \in idx : \A j \in idx : j <= i
            IN SubSeq(s, lo, hi)

(***************************************************************************)
(* The proleptic Gregorian calendar of Python's datetime.                  *)
(***************************************************************************)
IsLeap(y) == y % 4 = 0 /\ (y % 100 # 0 \/ y % 400 = 0)

DaysInMonthTable == <<31, 28, 31, 30, 31, 30, 31, 31, 30, 31, 30, 31>>

DaysInMonth(y, m) == IF m = 2 /\ IsLeap(y) THEN 29 ELSE DaysInMonthTable[m]

DaysBeforeYear(y) ==
    LET p == y - 1
    IN p * 365 + (p \div 4) - (p \div 100) + (p \div 400)

DaysBeforeMonth(y, m) ==
    LET RECURSIVE Sum(_)
        Sum(k) == IF k = 0 THEN 0 ELSE DaysInMonthTable[k] + Sum(k - 1)
    IN Sum(m - 1) + (IF m > 2 /\ IsLeap(y) THEN 1 ELSE 0)

\* ymd_to_ord: the day number of year y, month m, day d
Ymd2Ord(y, m, d) == DaysBeforeYear(y) + DaysBeforeMonth(y, m) + d

\* ord_to_ymd: <<year, month, day>> of day number n
Ord2Ymd(n) ==
    LET n0 == n - 1
        n400 == n0 \div 146097
        r400 == n0 % 146097
        n100 == r400 \div 36524
        r100 == r400 % 36524
        n4 == r100 \div 1461
        r4 == r100 % 1461
        n1 == r4 \div 365
        r1 == r4 % 365
        year == n400 * 400 + 1 + n100 * 100 + n4 * 4 + n1
    IN IF n1 = 4 \/ n100 = 4 THEN <<year - 1, 12, 31>>
       ELSE LET month == CHOOSE m \in 1..12 :
                             /\ DaysBeforeMonth(year, m) <= r1
                             /\ r1 < DaysBeforeMonth(year, m) + DaysInMonth(year, m)
            IN <<year, month, r1 - DaysBeforeMonth(year, month) + 1>>

\* Day number of 1970-01-01, the epoch of the system clock.
EpochOrdinal == Ymd2Ord(1970, 1, 1)

(***************************************************************************)
(* Datetimes.  tzoff is <<>> for a naive datetime (tzinfo is None) and     *)
(* <<seconds>> for an aware one with that UTC offset.                      *)
(***************************************************************************)
DateTime(y, mo, d, h, mi, s, us, tz) ==
    [year |-> y, month |-> mo, day |-> d, hour |-> h, minute |-> mi,
     second |-> s, microsecond |-> us, tzoff |-> tz]

IsNaive(dt) == dt.tzoff = <<>>

\* datetime.utcnow() when the system clock reads c = [sec, us]
UtcNow(c) ==
    LET ymd == Ord2Ymd(EpochOrdinal + (c.sec \div SecondsPerDay))
        sod == c.sec % SecondsPerDay
    IN DateTime(ymd[1], ymd[2], ymd[3], sod \div 3600, (sod % 3600) \div 60,
                sod % 60, c.us, <<>>)

SecondOfDay(dt) == dt.hour * 3600 + dt.minute * 60 + dt.second

\* (a - b).days for two naive datetimes: the timedelta is normalised so that
\* 0 <= seconds < 86400 and 0 <= microseconds < 10^6, days taking the floor.
DeltaDays(a, b) ==
    LET dd == Ymd2Ord(a.year, a.month, a.day) - Ymd2Ord(b.year, b.month, b.day)
        ds == SecondOfDay(a) - SecondOfDay(b)
        du == a.microsecond - b.microsecond
        carryS == IF du < 0 THEN -1 ELSE 0
        s == ds + carryS
        carryD == IF s < 0 THEN -1 ELSE 0
    IN dd + carryD

\* Faulty variant: the fraction is written to the millisecond only.
IsoFormatMillis(dt) ==
    ZeroPad(dt.year, 4) \o <<"-">> \o ZeroPad(dt.month, 2) \o <<"-">>
      \o ZeroPad(dt.day, 2) \o <<"T">> \o ZeroPad(dt.hour, 2) \o <<":">>
      \o ZeroPad(dt.minute, 2) \o <<":">> \o ZeroPad(dt.second, 2)
      \o (IF dt.microsecond = 0 THEN <<>>
          ELSE <<".">> \o ZeroPad(dt.microsecond \div 1000, 3))

\* datetime.isoformat() of a naive datetime:
\* YYYY-MM-DDTHH:MM:SS, followed by .ffffff when microsecond is not 0
IsoFormat(dt) ==
    ZeroPad(dt.year, 4) \o <<"-">> \o ZeroPad(dt.month, 2) \o <<"-">>
      \o ZeroPad(dt.day, 2) \o <<"T">> \o ZeroPad(dt.hour, 2) \o <<":">>
      \o ZeroPad(dt.minute, 2) \o <<":">> \o ZeroPad(dt.second, 2)
      \o (IF dt.microsecond = 0 THEN <<>>
          ELSE <<".">> \o ZeroPad(dt.microsecond, 6))

\* "data_" + strftime('%Y%m%dT%H%M%SZ') + ".csv": the name has no part finer
\* than the second.
SnapshotName(dt) ==
    <<"d", "a", "t", "a", "_">> \o ZeroPad(dt.year, 4) \o ZeroPad(dt.month, 2)
      \o ZeroPad(dt.day, 2) \o <<"T">> \o ZeroPad(dt.hour, 2)
      \o ZeroPad(dt.minute, 2) \o ZeroPad(dt.second, 2)
      \o <<"Z", ".", "c", "s", "v">>

\* Parse HH[:MM[:SS[.fff[fff]]]].  <<>> when t is not of that form, else
\* <<hour, minute, second, microsecond>>.
ParseHhMmSsFf(t) ==
    LET n == Len(t)
        two(i) == Slice(t, i, i + 2)
        okTwo(i) == AllDigits(two(i))
        frac == Slice(t, 9, n)
    IN IF n \notin {2, 5, 8, 12, 15} THEN <<>>
       ELSE IF ~okTwo(0) THEN <<>>
       ELSE IF n = 2 THEN <<ParseInt(two(0)), 0, 0, 0>>
       ELSE IF t[3] # ":" \/ ~okTwo(3) THEN <<>>
       ELSE IF n = 5 THEN <<ParseInt(two(0)), ParseInt(two(3)), 0, 0>>
       ELSE IF t[6] # ":" \/ ~okTwo(6) THEN <<>>
       ELSE IF n = 8 THEN <<ParseInt(two(0)), ParseInt(two(3)), ParseInt(two(6)), 0>>
       ELSE IF t[9] # "." \/ ~AllDigits(frac) THEN <<>>
       ELSE <<ParseInt(two(0)), ParseInt(two(3)), ParseInt(two(6)),
              ParseInt(frac) * (IF n = 12 THEN 1000 ELSE 1)>>

\* Position (0-based) of the first "+" or "-" of t, or Len(t) when there is none.
TzSignPos(t) ==
    LET idx == {i \in 1..Len(t) : t[i] \in {"+", "-"}}
    IN IF idx = {} THEN Len(t)
       ELSE (CHOOSE i \in idx : \A j \in idx : i <= j) - 1

\* datetime.fromisoformat(s), the inverse of isoformat():
\* YYYY-MM-DD[*HH[:MM[:SS[.fff[fff]]]][+HH:MM[:SS[.ffffff]]]].
\* <<>> when it raises ValueError, else <<datetime>>.
FromIsoFormat(s) ==
    LET n == Len(s)
        dateOk == /\ n >= 10
                  /\ AllDigits(Slice(s, 0, 4)) /\ s[5] = "-"
                  /\ AllDigits(Slice(s, 5, 7)) /\ s[8] = "-"
                  /\ AllDigits(Slice(s, 8, 10))
        y == ParseInt(Slice(s, 0, 4))
        mo == ParseInt(Slice(s, 5, 7))
        d == ParseInt(Slice(s, 8, 10))
        rangeOk == /\ y >= 1 /\ mo \in 1..12
                   /\ d >= 1 /\ d <= DaysInMonth(y, mo)
        rest == Slice(s, 11, n)
        sign == TzSignPos(rest)
        tm == ParseHhMmSsFf(Slice(rest, 0, sign))
        tzs == Slice(rest, sign + 1, Len(rest))
        tz == ParseHhMmSsFf(tzs)
        tmOk == tm # <<>> /\ tm[1] < 24 /\ tm[2] < 60 /\ tm[3] < 60
        tzOk == tz # <<>> /\ tz[1] < 24 /\ tz[2] < 60 /\ tz[3] < 60 /\ Len(tzs) >= 5
        off == (tz[1] * 3600 + tz[2] * 60 + tz[3])
                 * (IF rest[sign + 1] = "-" THEN -1 ELSE 1)
    IN IF ~dateOk THEN <<>>
       ELSE IF ~rangeOk THEN <<>>
       ELSE IF n = 10 THEN <<DateTime(y, mo, d, 0, 0, 0, 0, <<>>)>>
       ELSE IF ~tmOk THEN <<>>
       ELSE IF sign = Len(rest)
            THEN <<DateTime(y, mo, d, tm[1], tm[2], tm[3], tm[4], <<>>)>>
       ELSE IF ~tzOk THEN <<>>
       ELSE <<DateTime(y, mo, d, tm[1], tm[2], tm[3], tm[4], <<off>>)>>

(***************************************************************************)
(* The state.                                                              *)
(***************************************************************************)
VARIABLES
    clock,      \* the system clock: [sec |-> seconds since 1970, us |-> microseconds]
    ticks,      \* how many times the clock was advanced
    dirExists,  \* whether the directory DATA_SAVE_PATH exists
    stateFile,  \* LAST_RUN_FILE: [exists |-> BOOLEAN, content |-> text]
    snaps,      \* the data_*.csv files of DATA_SAVE_PATH: name |-> content
    loads,      \* the successful loads into MONTHLY_PUBLIC_DATA, in order
    runs,       \* how many invocations were started
    pc,         \* where each process is in save_data_monthly
    loc,        \* each process's environment and local variables
    hist        \* what each process's current invocation has done so far

vars == <<clock, ticks, dirExists, stateFile, snaps, loads, runs, pc, loc, hist>>

\* The processes that may run the script; SeqProcs are those of the
\* one-invocation-at-a-time deployment the script is written for.
Procs == {"p1", "p2"}

SeqProcs == {"p1"}

\* The clock when the model starts: 2024-01-31T23:59:59Z.
StartClocks == {[sec |-> 1706745599, us |-> 0]}

\* The amounts of time that pass in one advance of the clock: half a second,
\* and half a second less than the interval of 30 days.
Deltas == {[sec |-> 0, us |-> 500000],
           [sec |-> IntervalDays * SecondsPerDay - 1, us |-> 500000]}

ClockAdd(c, d) ==
    LET u == c.us + d.us
    IN [sec |-> c.sec + d.sec + (u \div MicrosPerSecond), us |-> u % MicrosPerSecond]

\* c1 <= c2 on clock readings
ClockLeq(c1, c2) == c1.sec < c2.sec \/ (c1.sec = c2.sec /\ c1.us <= c2.us)

\* random.randint(1, 100): the values the placeholder source draws from
RandomValues == {1, 100}

\* Lengths at which a write of the timestamp text can stop short: inside the
\* date (the text does not parse) and after the date (it parses, as midnight
\* of that day).
PartialLengths == {7, 10}

NoFile == [exists |-> FALSE, content |-> <<>>]

\* What last_run.txt may hold when the model starts at clock reading c: no
\* file (a first run); the UTC timestamp of a run 5 days ago, as isoformat()
\* writes it, with a newline after it; or the same instant written with its
\* UTC offset.
InitialStateFiles(c) ==
    LET ago == UtcNow([sec |-> c.sec - 5 * SecondsPerDay, us |-> c.us])
    IN {NoFile,
        [exists |-> TRUE, content |-> IsoFormat(ago) \o <<"\n">>],
        [exists |-> TRUE, content |-> IsoFormat(ago) \o <<"+", "0", "0", ":", "0", "0">>]}

Running == {"read_last_run", "should_run", "fetch", "makedirs", "to_csv",
            "credentials", "connect", "create_table", "write_pandas", "finally",
            "commit", "commit_write"}

Ended == {"skipped", "done", "failed", "crashed"}

\* logger.<level>(...) at the given source line: the record is appended to
\* what the process has written to its log stream.
Logger(log, level, line) == Append(log, [level |-> level, line |-> line])

InitLoc == [creds |-> FALSE, lastRun |-> <<>>, gate |-> <<>>, df |-> <<>>,
            fileName |-> <<>>, ctx |-> "none", cs |-> "none", exiting |-> FALSE,
            runTime |-> <<>>, exitCode |-> -1]

InitHist == [gateAt |-> [sec |-> 0, us |-> 0], stateBefore |-> NoFile,
             snapsBefore |-> <<>>, fetches |-> 0, fetchOk |-> FALSE,
             mkdirs |-> 0, snapWrites |-> 0, snapOk |-> FALSE,
             credChecks |-> 0, connects |-> 0, loadAttempts |-> 0,
             loadOk |-> FALSE, loadFailed |-> FALSE, retry |-> FALSE, log |-> <<>>, gateBeforePeerCommit |-> FALSE, commits |-> 0, commitOk |-> FALSE]

Init ==
    /\ clock \in StartClocks
    /\ ticks = 0
    /\ stateFile \in InitialStateFiles(clock)
    /\ dirExists = stateFile.exists
    /\ snaps = <<>>
    /\ loads = <<>>
    /\ runs = 0
    /\ pc = [p \in Procs |-> "idle"]
    /\ loc = [p \in Procs |-> InitLoc]
    /\ hist = [p \in Procs |-> InitHist]

(***************************************************************************)
(* The environment: time passes, and the scheduler starts the script.      *)
(***************************************************************************)
Tick ==
    /\ ticks < MaxTicks
    /\ \E d \in Deltas : clock' = ClockAdd(clock, d)
    /\ ticks' = ticks + 1
    /\ UNCHANGED <<dirExists, stateFile, snaps, loads, runs, pc, loc, hist>>

\* python monthly_data_loader.py, with the credentials set in the
\* environment or not.
Start(p) ==
    /\ pc[p] \in {"idle"} \cup Ended
    /\ runs < MaxRuns
    /\ runs' = runs + 1
    /\ \E c \in BOOLEAN : loc' = [loc EXCEPT ![p] = [InitLoc EXCEPT !.creds = c]]
    /\ hist' = [hist EXCEPT ![p] = [InitHist EXCEPT !.stateBefore = stateFile,
                                                    !.snapsBefore = snaps]]
    /\ pc' = [pc EXCEPT ![p] = "read_last_run"]
    /\ UNCHANGED <<clock, ticks, dirExists, stateFile, snaps, loads>>

\* The invocation of p passed the gate and failed before the commit.
FailedCycle(p) ==
    pc[p] = "failed" /\ loc[p].gate = <<TRUE>> /\ hist[p].commits = 0

\* The scheduler runs the script again; retry records whether the invocation
\* before this one was a failed cycle.
StartRetry(p) ==
    /\ pc[p] \in {"idle"} \cup Ended
    /\ runs < MaxRuns
    /\ runs' = runs + 1
    /\ \E c \in BOOLEAN : loc' = [loc EXCEPT ![p] = [InitLoc EXCEPT !.creds = c]]
    /\ hist' = [hist EXCEPT ![p] = [InitHist EXCEPT !.stateBefore = stateFile,
                                                    !.snapsBefore = snaps,
                                                    !.retry = FailedCycle(p)]]
    /\ pc' = [pc EXCEPT ![p] = "read_last_run"]
    /\ UNCHANGED <<clock, ticks, dirExists, stateFile, snaps, loads>>

\* The file after open(LAST_RUN_FILE, "w"): it exists and is empty.
OpenForWrite(f) == [exists |-> TRUE, content |-> <<>>]

\* The file after f.write(text) and the close that flushes it: the text goes
\* to offset 0 of the file as it is then (empty, unless another process has
\* written to it since this one opened it).
WriteText(f, text) ==
    [exists |-> TRUE,
     content |-> text \o SubSeq(f.content, Len(text) + 1, Len(f.content))]

\* No other invocation has begun to write the state file.
NoPeerCommit(p) == \A q \in Procs \ {p} : hist[q].commits = 0

\* The process is killed (or the machine stops) somewhere in the script.  In
\* the middle of the write of the state file, what is on disk is the
\* truncated file or a prefix of the text.
Crash(p) ==
    /\ pc[p] \in Running
    /\ pc' = [pc EXCEPT ![p] = "crashed"]
    /\ IF pc[p] = "commit_write"
       THEN \E k \in {0} \cup {n \in PartialLengths : n < Len(IsoFormat(loc[p].runTime[1]))} :
               stateFile' = WriteText(stateFile, SubSeq(IsoFormat(loc[p].runTime[1]), 1, k))
       ELSE UNCHANGED stateFile
    /\ UNCHANGED <<clock, ticks, dirExists, snaps, loads, runs, loc, hist>>

(***************************************************************************)
(* The run gate.                                                           *)
(***************************************************************************)
\* read_last_run_time(): <<>> for None (no file, or its text does not parse),
\* else <<datetime>>.
ReadLastRunTime(f) ==
    IF ~f.exists THEN <<>> ELSE FromIsoFormat(Strip(f.content))

\* now - last_run raises TypeError when last_run is aware: utcnow() is naive.
GateRaises(lastRun) == lastRun # <<>> /\ ~IsNaive(lastRun[1])

\* Faulty variant: the comparison is strict, so a run exactly 30 days old is not due.
ShouldRunMonthlyStrict(lastRun, now) ==
    IF lastRun = <<>> THEN TRUE ELSE DeltaDays(now, lastRun[1]) > IntervalDays

\* should_run_monthly(), given what read_last_run_time() returned and
\* now = utcnow()
ShouldRunMonthly(lastRun, now) ==
    IF lastRun = <<>> THEN TRUE ELSE DeltaDays(now, lastRun[1]) >= IntervalDays

ReadLastRun(p) ==
    /\ pc[p] = "read_last_run"
    /\ loc' = [loc EXCEPT ![p].lastRun = ReadLastRunTime(stateFile)]
    /\ hist' = [hist EXCEPT ![p].log =
                   IF stateFile.exists /\ ReadLastRunTime(stateFile) = <<>>
                   THEN Logger(@, "WARNING", 122) ELSE @]
    /\ pc' = [pc EXCEPT ![p] = "should_run"]
    /\ UNCHANGED <<clock, ticks, dirExists, stateFile, snaps, loads, runs>>

\* Faulty variant: save_data_monthly goes on to the fetch whatever the gate returned.
ShouldRunNoBranch(p) ==
    /\ pc[p] = "should_run"
    /\ ~GateRaises(loc[p].lastRun)
    /\ loc' = [loc EXCEPT ![p].gate = <<ShouldRunMonthly(loc[p].lastRun, UtcNow(clock))>>]
    /\ pc' = [pc EXCEPT ![p] = "fetch"]
    /\ hist' = [hist EXCEPT ![p].gateAt = clock]
    /\ UNCHANGED <<clock, ticks, dirExists, stateFile, snaps, loads, runs>>

\* Lines 140-144, and the branch of save_data_monthly on the result: not due
\* is logged and the script returns, with exit code 0; due, the start of the
\* cycle is logged (line 155).  gateAt is the clock reading at that moment.
ShouldRun(p) ==
    /\ pc[p] = "should_run"
    /\ ~GateRaises(loc[p].lastRun)
    /\ LET due == ShouldRunMonthly(loc[p].lastRun, UtcNow(clock))
       IN /\ loc' = [loc EXCEPT ![p].gate = <<due>>,
                                ![p].exitCode = IF due THEN -1 ELSE 0]
          /\ pc' = [pc EXCEPT ![p] = IF due THEN "fetch" ELSE "skipped"]
          /\ hist' = [hist EXCEPT ![p].gateAt = clock,
                                  ![p].gateBeforePeerCommit = NoPeerCommit(p),
                                  ![p].log = Logger(@, "INFO", IF due THEN 155 ELSE 153)]
    /\ UNCHANGED <<clock, ticks, dirExists, stateFile, snaps, loads, runs>>

\* The TypeError of the subtraction is caught nowhere: traceback, exit code 1.
ShouldRunRaises(p) ==
    /\ pc[p] = "should_run"
    /\ GateRaises(loc[p].lastRun)
    /\ loc' = [loc EXCEPT ![p].exitCode = 1]
    /\ pc' = [pc EXCEPT ![p] = "failed"]
    /\ hist' = [hist EXCEPT ![p].gateAt = clock]
    /\ UNCHANGED <<clock, ticks, dirExists, stateFile, snaps, loads, runs>>

(***************************************************************************)
(* The pipeline of save_data_monthly.                                      *)
(***************************************************************************)
\* fetch_public_data() returns the dataset, stamped with utcnow().
FetchPublicData(p) ==
    /\ pc[p] = "fetch"
    /\ \E v \in RandomValues :
          loc' = [loc EXCEPT ![p].df = <<[data |-> v, timestamp |-> UtcNow(clock)]>>]
    /\ hist' = [hist EXCEPT ![p].fetches = @ + 1, ![p].fetchOk = TRUE]
    /\ pc' = [pc EXCEPT ![p] = "makedirs"]
    /\ UNCHANGED <<clock, ticks, dirExists, stateFile, snaps, loads, runs>>

\* Faulty variant: the failure of the source is handled by recording the run anyway.
FetchRaisesCommits(p) ==
    /\ pc[p] = "fetch"
    /\ hist' = [hist EXCEPT ![p].fetches = @ + 1]
    /\ loc' = [loc EXCEPT ![p].exitCode = 1]
    /\ pc' = [pc EXCEPT ![p] = "failed"]
    /\ dirExists' = TRUE
    /\ stateFile' = [exists |-> TRUE, content |-> IsoFormat(UtcNow(clock))]
    /\ UNCHANGED <<clock, ticks, snaps, loads, runs>>

\* The source fails: the exception leaves save_data_monthly uncaught.
FetchRaises(p) ==
    /\ pc[p] = "fetch"
    /\ hist' = [hist EXCEPT ![p].fetches = @ + 1]
    /\ loc' = [loc EXCEPT ![p].exitCode = 1]
    /\ pc' = [pc EXCEPT ![p] = "failed"]
    /\ UNCHANGED <<clock, ticks, dirExists, stateFile, snaps, loads, runs>>

\* os.makedirs(DATA_SAVE_PATH, exist_ok=True)
Makedirs(p) ==
    /\ pc[p] = "makedirs"
    /\ dirExists' = TRUE
    /\ hist' = [hist EXCEPT ![p].mkdirs = @ + 1]
    /\ pc' = [pc EXCEPT ![p] = "to_csv"]
    /\ UNCHANGED <<clock, ticks, stateFile, snaps, loads, runs, loc>>

\* The file that df.to_csv(path) leaves: the rows of df, all of them or not.
CsvOf(df, complete) == [rows |-> df, complete |-> complete]

\* Writing content under name: open(path, "w") replaces a file of that name.
WriteFile(dir, name, content) ==
    [n \in DOMAIN dir \cup {name} |-> IF n = name THEN content ELSE dir[n]]

\* Lines 158-160: the name is taken from utcnow(), then the dataset is written.
ToCsv(p) ==
    /\ pc[p] = "to_csv"
    /\ LET name == SnapshotName(UtcNow(clock))
       IN /\ snaps' = WriteFile(snaps, name, CsvOf(loc[p].df[1], TRUE))
          /\ loc' = [loc EXCEPT ![p].fileName = <<name>>]
    /\ hist' = [hist EXCEPT ![p].snapWrites = @ + 1, ![p].snapOk = TRUE,
                            ![p].log = Logger(@, "INFO", 161)]
    /\ pc' = [pc EXCEPT ![p] = "credentials"]
    /\ UNCHANGED <<clock, ticks, dirExists, stateFile, loads, runs>>

\* Faulty variant: the OSError of to_csv is swallowed and the script goes on
\* to the load.
ToCsvRaisesContinues(p) ==
    /\ pc[p] = "to_csv"
    /\ LET name == SnapshotName(UtcNow(clock))
       IN /\ \/ UNCHANGED snaps
             \/ snaps' = WriteFile(snaps, name, CsvOf(loc[p].df[1], FALSE))
          /\ loc' = [loc EXCEPT ![p].fileName = <<name>>]
    /\ hist' = [hist EXCEPT ![p].snapWrites = @ + 1]
    /\ pc' = [pc EXCEPT ![p] = "credentials"]
    /\ UNCHANGED <<clock, ticks, dirExists, stateFile, loads, runs>>

\* to_csv raises OSError: before the file was opened, or after it was opened
\* (created or truncated) and part of the rows written.
ToCsvRaises(p) ==
    /\ pc[p] = "to_csv"
    /\ LET name == SnapshotName(UtcNow(clock))
       IN /\ \/ UNCHANGED snaps
             \/ snaps' = WriteFile(snaps, name, CsvOf(loc[p].df[1], FALSE))
          /\ loc' = [loc EXCEPT ![p].fileName = <<name>>, ![p].exitCode = 1]
    /\ hist' = [hist EXCEPT ![p].snapWrites = @ + 1]
    /\ pc' = [pc EXCEPT ![p] = "failed"]
    /\ UNCHANGED <<clock, ticks, dirExists, stateFile, loads, runs>>

\* get_snowflake_credentials(): sys.exit(1) when user, password or account is
\* not set.
GetSnowflakeCredentials(p) ==
    /\ pc[p] = "credentials"
    /\ hist' = [hist EXCEPT ![p].credChecks = @ + 1,
                            ![p].log = IF loc[p].creds THEN @ ELSE Logger(@, "ERROR", 37)]
    /\ IF loc[p].creds
       THEN /\ pc' = [pc EXCEPT ![p] = "connect"]
            /\ UNCHANGED loc
       ELSE /\ pc' = [pc EXCEPT ![p] = "failed"]
            /\ loc' = [loc EXCEPT ![p].exitCode = 1]
    /\ UNCHANGED <<clock, ticks, dirExists, stateFile, snaps, loads, runs>>

(***************************************************************************)
(* load_data_to_snowflake.                                                 *)
(***************************************************************************)
\* ctx = snowflake.connector.connect(...)
Connect(p) ==
    /\ pc[p] = "connect"
    /\ loc' = [loc EXCEPT ![p].ctx = "open"]
    /\ hist' = [hist EXCEPT ![p].connects = @ + 1]
    /\ pc' = [pc EXCEPT ![p] = "create_table"]
    /\ UNCHANGED <<clock, ticks, dirExists, stateFile, snaps, loads, runs>>

\* Faulty variant: a warehouse that cannot be reached is recorded as a run.
ConnectRaisesCommits(p) ==
    /\ pc[p] = "connect"
    /\ loc' = [loc EXCEPT ![p].exiting = TRUE]
    /\ hist' = [hist EXCEPT ![p].connects = @ + 1, ![p].loadFailed = TRUE]
    /\ pc' = [pc EXCEPT ![p] = "finally"]
    /\ dirExists' = TRUE
    /\ stateFile' = [exists |-> TRUE, content |-> IsoFormat(UtcNow(clock))]
    /\ UNCHANGED <<clock, ticks, snaps, loads, runs>>

\* connect raises: the except clause logs and calls sys.exit(1); the finally
\* clause runs before the process exits.
ConnectRaises(p) ==
    /\ pc[p] = "connect"
    /\ loc' = [loc EXCEPT ![p].exiting = TRUE]
    /\ hist' = [hist EXCEPT ![p].connects = @ + 1, ![p].loadFailed = TRUE,
                            ![p].log = Logger(@, "ERROR", 85)]
    /\ pc' = [pc EXCEPT ![p] = "finally"]
    /\ UNCHANGED <<clock, ticks, dirExists, stateFile, snaps, loads, runs>>

\* cs = ctx.cursor(); cs.execute(CREATE TABLE IF NOT EXISTS ...)
CreateTable(p) ==
    /\ pc[p] = "create_table"
    /\ loc' = [loc EXCEPT ![p].cs = "open"]
    /\ pc' = [pc EXCEPT ![p] = "write_pandas"]
    /\ UNCHANGED <<clock, ticks, dirExists, stateFile, snaps, loads, runs, hist>>

CreateTableRaises(p) ==
    /\ pc[p] = "create_table"
    /\ \E c \in {"none", "open"} : loc' = [loc EXCEPT ![p].cs = c, ![p].exiting = TRUE]
    /\ hist' = [hist EXCEPT ![p].loadFailed = TRUE, ![p].log = Logger(@, "ERROR", 85)]
    /\ pc' = [pc EXCEPT ![p] = "finally"]
    /\ UNCHANGED <<clock, ticks, dirExists, stateFile, snaps, loads, runs>>

\* write_pandas returns success: the rows are in the table.
WritePandas(p) ==
    /\ pc[p] = "write_pandas"
    /\ loads' = Append(loads, [at |-> clock, by |-> p])
    /\ hist' = [hist EXCEPT ![p].loadAttempts = @ + 1, ![p].loadOk = TRUE,
                            ![p].log = Logger(@, "INFO", 80)]
    /\ pc' = [pc EXCEPT ![p] = "finally"]
    /\ UNCHANGED <<clock, ticks, dirExists, stateFile, snaps, runs, loc>>

\* Faulty variant: the failure is logged but sys.exit(1) is not called.
WritePandasFailsNoExit(p) ==
    /\ pc[p] = "write_pandas"
    /\ hist' = [hist EXCEPT ![p].loadAttempts = @ + 1, ![p].loadFailed = TRUE]
    /\ pc' = [pc EXCEPT ![p] = "finally"]
    /\ UNCHANGED <<clock, ticks, dirExists, stateFile, snaps, loads, runs, loc>>

\* write_pandas returns success = False (sys.exit(1) in the else branch) or
\* raises (sys.exit(1) in the except clause).
WritePandasFails(p) ==
    /\ pc[p] = "write_pandas"
    /\ loc' = [loc EXCEPT ![p].exiting = TRUE]
    /\ \E line \in {82, 85} :
          hist' = [hist EXCEPT ![p].loadAttempts = @ + 1, ![p].loadFailed = TRUE,
                               ![p].log = Logger(@, "ERROR", line)]
    /\ pc' = [pc EXCEPT ![p] = "finally"]
    /\ UNCHANGED <<clock, ticks, dirExists, stateFile, snaps, loads, runs>>

Closed(h) == IF h = "open" THEN "closed" ELSE h

\* Faulty variant: after the load save_data_monthly returns without the commit.
FinallySkipsCommit(p) ==
    /\ pc[p] = "finally"
    /\ loc' = [loc EXCEPT ![p].cs = Closed(@), ![p].ctx = Closed(@),
                          ![p].exitCode = IF loc[p].exiting THEN 1 ELSE 0]
    /\ pc' = [pc EXCEPT ![p] = IF loc[p].exiting THEN "failed" ELSE "done"]
    /\ UNCHANGED <<clock, ticks, dirExists, stateFile, snaps, loads, runs, hist>>

\* Faulty variant: the cursor and the connection are closed at the end of the
\* try block instead of in a finally clause.
FinallyOnlyAfterSuccess(p) ==
    /\ pc[p] = "finally"
    /\ loc' = [loc EXCEPT ![p].cs = IF loc[p].exiting THEN @ ELSE Closed(@),
                          ![p].ctx = IF loc[p].exiting THEN @ ELSE Closed(@),
                          ![p].exitCode = IF loc[p].exiting THEN 1 ELSE @]
    /\ pc' = [pc EXCEPT ![p] = IF loc[p].exiting THEN "failed" ELSE "commit"]
    /\ UNCHANGED <<clock, ticks, dirExists, stateFile, snaps, loads, runs, hist>>

\* finally: cs.close() and ctx.close() for those that were set; then the
\* pending SystemExit, if any, ends the process with exit code 1.
Finally(p) ==
    /\ pc[p] = "finally"
    /\ loc' = [loc EXCEPT ![p].cs = Closed(@), ![p].ctx = Closed(@),
                          ![p].exitCode = IF loc[p].exiting THEN 1 ELSE @]
    /\ pc' = [pc EXCEPT ![p] = IF loc[p].exiting THEN "failed" ELSE "commit"]
    /\ UNCHANGED <<clock, ticks, dirExists, stateFile, snaps, loads, runs, hist>>

(***************************************************************************)
(* write_last_run_time(datetime.utcnow()).                                 *)
(***************************************************************************)
\* Faulty variant: the commit is given up when the state file is no longer
\* the one the invocation started from.
CommitOpenIfUnchanged(p) ==
    /\ pc[p] = "commit"
    /\ IF stateFile = hist[p].stateBefore
       THEN /\ loc' = [loc EXCEPT ![p].runTime = <<UtcNow(clock)>>]
            /\ hist' = [hist EXCEPT ![p].commits = @ + 1]
            /\ dirExists' = TRUE
            /\ stateFile' = OpenForWrite(stateFile)
            /\ pc' = [pc EXCEPT ![p] = "commit_write"]
       ELSE /\ loc' = [loc EXCEPT ![p].exitCode = 0]
            /\ pc' = [pc EXCEPT ![p] = "done"]
            /\ UNCHANGED <<hist, dirExists, stateFile>>
    /\ UNCHANGED <<clock, ticks, snaps, loads, runs>>

\* Line 165 takes utcnow(); lines 130-131 make the directory and open the
\* file for writing, which truncates it.
CommitOpen(p) ==
    /\ pc[p] = "commit"
    /\ loc' = [loc EXCEPT ![p].runTime = <<UtcNow(clock)>>]
    /\ hist' = [hist EXCEPT ![p].commits = @ + 1]
    /\ dirExists' = TRUE
    /\ stateFile' = OpenForWrite(stateFile)
    /\ pc' = [pc EXCEPT ![p] = "commit_write"]
    /\ UNCHANGED <<clock, ticks, snaps, loads, runs>>

\* makedirs or open raises OSError: nothing is written, the exception leaves
\* save_data_monthly uncaught.
CommitOpenRaises(p) ==
    /\ pc[p] = "commit"
    /\ loc' = [loc EXCEPT ![p].runTime = <<UtcNow(clock)>>, ![p].exitCode = 1]
    /\ hist' = [hist EXCEPT ![p].commits = @ + 1]
    /\ pc' = [pc EXCEPT ![p] = "failed"]
    /\ UNCHANGED <<clock, ticks, dirExists, stateFile, snaps, loads, runs>>

\* Line 132 and the close of the with block, then line 166 and the return.
CommitWrite(p) ==
    /\ pc[p] = "commit_write"
    /\ stateFile' = WriteText(stateFile, IsoFormat(loc[p].runTime[1]))
    /\ hist' = [hist EXCEPT ![p].commitOk = TRUE, ![p].log = Logger(@, "INFO", 166)]
    /\ loc' = [loc EXCEPT ![p].exitCode = 0]
    /\ pc' = [pc EXCEPT ![p] = "done"]
    /\ UNCHANGED <<clock, ticks, dirExists, snaps, loads, runs>>

\* Faulty variant: write_last_run_time swallows the OSError and returns.
CommitWriteRaisesSwallowed(p) ==
    /\ pc[p] = "commit_write"
    /\ LET text == IsoFormat(loc[p].runTime[1])
       IN \E k \in {0} \cup {n \in PartialLengths : n < Len(text)} :
             stateFile' = WriteText(stateFile, SubSeq(text, 1, k))
    /\ loc' = [loc EXCEPT ![p].exitCode = 0]
    /\ pc' = [pc EXCEPT ![p] = "done"]
    /\ UNCHANGED <<clock, ticks, dirExists, snaps, loads, runs, hist>>

\* The write or the flush raises OSError (a full disk) after part of the
\* text, or none of it, reached the file.
CommitWriteRaises(p) ==
    /\ pc[p] = "commit_write"
    /\ LET text == IsoFormat(loc[p].runTime[1])
       IN \E k \in {0} \cup {n \in PartialLengths : n < Len(text)} :
             stateFile' = WriteText(stateFile, SubSeq(text, 1, k))
    /\ loc' = [loc EXCEPT ![p].exitCode = 1]
    /\ pc' = [pc EXCEPT ![p] = "failed"]
    /\ UNCHANGED <<clock, ticks, dirExists, snaps, loads, runs, hist>>

(***************************************************************************)
(* The specifications.                                                     *)
(***************************************************************************)
Step(p) ==
    \/ Start(p)
    \/ ReadLastRun(p)
    \/ ShouldRun(p)
    \/ ShouldRunRaises(p)
    \/ FetchPublicData(p)
    \/ FetchRaises(p)
    \/ Makedirs(p)
    \/ ToCsv(p)
    \/ ToCsvRaises(p)
    \/ GetSnowflakeCredentials(p)
    \/ Connect(p)
    \/ ConnectRaises(p)
    \/ CreateTable(p)
    \/ CreateTableRaises(p)
    \/ WritePandas(p)
    \/ WritePandasFails(p)
    \/ Finally(p)
    \/ CommitOpen(p)
    \/ CommitOpenRaises(p)
    \/ CommitWrite(p)
    \/ CommitWriteRaises(p)
    \/ Crash(p)

\* One invocation at a time, as the script assumes, on a state file that only
\* the script writes.
Next == Tick \/ \E p \in SeqProcs : Step(p)

Spec == Init /\ [][Next]_vars

\* The steps of an invocation that has been started and is not killed.
Cycle(p) ==
    \/ ReadLastRun(p)
    \/ ShouldRun(p)
    \/ ShouldRunRaises(p)
    \/ FetchPublicData(p)
    \/ FetchRaises(p)
    \/ Makedirs(p)
    \/ ToCsv(p)
    \/ ToCsvRaises(p)
    \/ GetSnowflakeCredentials(p)
    \/ Connect(p)
    \/ ConnectRaises(p)
    \/ CreateTable(p)
    \/ CreateTableRaises(p)
    \/ WritePandas(p)
    \/ WritePandasFails(p)
    \/ Finally(p)
    \/ CommitOpen(p)
    \/ CommitOpenRaises(p)
    \/ CommitWrite(p)
    \/ CommitWriteRaises(p)

\* Invocations that end by themselves (none is killed), each started knowing
\* how the one before it ended.
StepRetry(p) == StartRetry(p) \/ Cycle(p)

NextRetry == Tick \/ \E p \in SeqProcs : StepRetry(p)

SpecRetry == Init /\ [][NextRetry]_vars

\* The scheduler does not wait for an invocation to end before it starts the
\* next one: two processes run the script against the same files.
\* Each of the two processes is started once, at any time.
StartOverlap(p) == pc[p] = "idle" /\ Start(p)

\* Nothing they call raises and no disk fills: what remains is the script,
\* the clock and the order in which the two processes take their steps.
StepOverlap(p) ==
    \/ StartOverlap(p)
    \/ ReadLastRun(p)
    \/ ShouldRun(p)
    \/ ShouldRunRaises(p)
    \/ FetchPublicData(p)
    \/ Makedirs(p)
    \/ ToCsv(p)
    \/ GetSnowflakeCredentials(p)
    \/ Connect(p)
    \/ CreateTable(p)
    \/ WritePandas(p)
    \/ Finally(p)
    \/ CommitOpen(p)
    \/ CommitWrite(p)

\* While the two run, the clock advances in its short steps.
TickOverlap == Tick /\ clock'.sec <= clock.sec + 1

NextOverlap == TickOverlap \/ \E p \in Procs : StepOverlap(p)

SpecOverlap == Init /\ [][NextOverlap]_vars

(***************************************************************************)
(* write_last_run_time on its own: a process that has loaded the dataset   *)
(* and is about to commit, at instants that cover the shapes of a          *)
(* timestamp (leap day, end of year, midnight, no fraction, fractions with *)
(* leading and trailing zeros).                                            *)
(***************************************************************************)
\* 2024-01-31T23:59:59, 2024-02-29T00:00:00, 2023-12-31T23:59:59,
\* 2000-01-01T00:00:00, 1970-01-06T00:00:00 and 2038-01-19T03:14:07, each
\* with five values of the microsecond.
RoundTripClocks ==
    {[sec |-> x, us |-> u] :
        x \in {1706745599, 1709164800, 1704067199, 946684800, 432000, 2147483647},
        u \in {0, 1, 123000, 500000, 999999}}

InitRoundTrip ==
    /\ clock \in RoundTripClocks
    /\ ticks = 0
    /\ stateFile \in InitialStateFiles(clock)
    /\ dirExists = stateFile.exists
    /\ snaps = <<>>
    /\ loads = <<[at |-> clock, by |-> "p1"]>>
    /\ runs = 1
    /\ pc = [p \in Procs |-> IF p = "p1" THEN "commit" ELSE "idle"]
    /\ loc = [p \in Procs |->
                IF p = "p1" THEN [InitLoc EXCEPT !.creds = TRUE, !.gate = <<TRUE>>]
                ELSE InitLoc]
    /\ hist = [p \in Procs |->
                 IF p = "p1"
                 THEN [InitHist EXCEPT !.gateAt = clock, !.stateBefore = stateFile,
                                       !.fetches = 1, !.fetchOk = TRUE,
                                       !.mkdirs = 1, !.snapWrites = 1, !.snapOk = TRUE,
                                       !.credChecks = 1, !.connects = 1,
                                       !.loadAttempts = 1, !.loadOk = TRUE,
                                       !.log = <<[level |-> "INFO", line |-> 155],
                                                 [level |-> "INFO", line |-> 161],
                                                 [level |-> "INFO", line |-> 80]>>]
                 ELSE InitHist]

NextRoundTrip ==
    \E p \in SeqProcs :
        \/ CommitOpen(p)
        \/ CommitOpenRaises(p)
        \/ CommitWrite(p)
        \/ CommitWriteRaises(p)
        \/ Crash(p)

SpecRoundTrip == InitRoundTrip /\ [][NextRoundTrip]_vars

(***************************************************************************)
(* The properties.                                                         *)
(***************************************************************************)
\* The instant of a naive UTC datetime, as a clock reading.
DtClock(dt) ==
    [sec |-> (Ymd2Ord(dt.year, dt.month, dt.day) - EpochOrdinal) * SecondsPerDay
               + SecondOfDay(dt),
     us |-> dt.microsecond]

ThirtyDays == [sec |-> 30 * SecondsPerDay, us |-> 0]

\* At least 30 days lie between the instant of last and the clock reading now.
ElapsedThirtyDays(last, now) == ClockLeq(ClockAdd(DtClock(last), ThirtyDays), now)

\* C1: whenever the gate has returned, it returned true exactly when there was
\* no prior run state or at least 30 days (not counting a partial day) lay
\* between last_run_timestamp and the moment of the check.
C1_GateThirtyDays ==
    \A p \in Procs :
        loc[p].gate # <<>> =>
            loc[p].gate[1] = (\/ loc[p].lastRun = <<>>
                              \/ ElapsedThirtyDays(loc[p].lastRun[1], hist[p].gateAt))

\* The gate returned false for a prior run half a second less than 30 days ago.
C1_Witness ==
    \E p \in Procs :
        /\ loc[p].gate = <<FALSE>>
        /\ ClockAdd(DtClock(loc[p].lastRun[1]),
                    [sec |-> 30 * SecondsPerDay - 1, us |-> 500000]) = hist[p].gateAt

\* The gate returned true for a prior run exactly 30 days ago.
C1_WitnessDue ==
    \E p \in Procs :
        /\ loc[p].gate = <<TRUE>>
        /\ loc[p].lastRun # <<>>
        /\ ClockAdd(DtClock(loc[p].lastRun[1]), ThirtyDays) = hist[p].gateAt

\* fetch, snapshot write and load of p's invocation all completed without error
CycleSucceeded(p) ==
    /\ loc[p].gate = <<TRUE>>
    /\ hist[p].fetchOk /\ hist[p].snapOk /\ hist[p].loadOk
    /\ ~loc[p].exiting

\* C2: write_last_run_time is called at most once in an invocation, only after
\* the gate returned true and fetch, snapshot write and load succeeded; and an
\* invocation that ends (returns or exits) after those succeeded has called it.
C2_CommitIffCycleSucceeded ==
    \A p \in Procs :
        /\ hist[p].commits <= 1
        /\ hist[p].commits = 1 => CycleSucceeded(p)
        /\ (pc[p] \in {"skipped", "done", "failed"} /\ CycleSucceeded(p))
              => hist[p].commits = 1

\* An invocation returned after a successful cycle and its one commit.
C2_Witness ==
    \E p \in Procs : pc[p] = "done" /\ CycleSucceeded(p) /\ hist[p].commits = 1

\* C3: after an invocation whose fetch failed, the state file is what it was
\* when the invocation started.
C3_FetchFailureKeepsRunState ==
    \A p \in Procs :
        (hist[p].fetches > 0 /\ ~hist[p].fetchOk) => stateFile = hist[p].stateBefore

\* The fetch failed in an invocation that found a prior run recorded.
C3_Witness ==
    \E p \in Procs :
        /\ pc[p] = "failed" /\ hist[p].fetches = 1 /\ ~hist[p].fetchOk
        /\ hist[p].stateBefore.exists /\ loc[p].lastRun # <<>>

\* C4: once the load of an invocation has failed (connect, table creation or
\* write_pandas raised, or write_pandas reported failure), the state file
\* stays what it was when the invocation started, and the invocation connects
\* and calls write_pandas at most once.
C4_LoadFailureKeepsRunState ==
    \A p \in Procs :
        hist[p].loadFailed =>
            /\ stateFile = hist[p].stateBefore
            /\ hist[p].commits = 0
            /\ hist[p].connects <= 1
            /\ hist[p].loadAttempts <= 1

\* write_pandas failed in an invocation that found a prior run recorded, and
\* the invocation has ended.
C4_Witness ==
    \E p \in Procs :
        /\ pc[p] = "failed" /\ hist[p].loadFailed /\ hist[p].loadAttempts = 1
        /\ hist[p].stateBefore.exists /\ loc[p].lastRun # <<>>

\* C5: an invocation whose gate returned false has ended with exit code 0
\* having fetched nothing, created no directory and no snapshot, checked no
\* credentials, opened no connection, loaded nothing and written no state.
C5_NotDueNoSideEffects ==
    \A p \in Procs :
        loc[p].gate = <<FALSE>> =>
            /\ pc[p] = "skipped"
            /\ loc[p].exitCode = 0
            /\ hist[p].fetches = 0 /\ hist[p].mkdirs = 0 /\ hist[p].snapWrites = 0
            /\ hist[p].credChecks = 0 /\ hist[p].connects = 0
            /\ hist[p].loadAttempts = 0 /\ hist[p].commits = 0
            /\ loc[p].ctx = "none"
            /\ stateFile = hist[p].stateBefore
            /\ snaps = hist[p].snapsBefore

\* An invocation was skipped as not due.
C5_Witness ==
    \E p \in Procs : loc[p].gate = <<FALSE>> /\ pc[p] = "skipped" /\ loc[p].exitCode = 0

\* The names of the completely written snapshot files of directory dir.
Snapshots(dir) == {n \in DOMAIN dir : dir[n].complete}

\* C6: when an invocation has completed a cycle, the data directory holds
\* exactly one snapshot more than when the invocation started, and the state
\* file holds a timestamp not earlier than the start of the cycle.
C6_OneNewSnapshotAndLaterTimestamp ==
    \A p \in Procs :
        pc[p] = "done" =>
            /\ Cardinality(Snapshots(snaps)) = Cardinality(Snapshots(hist[p].snapsBefore)) + 1
            /\ ReadLastRunTime(stateFile) # <<>>
            /\ ClockLeq(hist[p].gateAt, DtClock(ReadLastRunTime(stateFile)[1]))

\* C7: any two consecutive successful loads are at least 30 days apart.
C7_LoadsThirtyDaysApart ==
    \A i \in 1..(Len(loads) - 1) :
        ClockLeq(ClockAdd(loads[i].at, ThirtyDays), loads[i + 1].at)

\* C8: the state file is absent, or empty, or its text is one timestamp that
\* parses.
C8_StateFileNeverPartial ==
    \/ ~stateFile.exists
    \/ stateFile.content = <<>>
    \/ FromIsoFormat(Strip(stateFile.content)) # <<>>

\* C9: no step removes a completely written snapshot or changes its content.
C9_SnapshotsImmutable ==
    [][\A n \in Snapshots(snaps) : n \in DOMAIN snaps' /\ snaps'[n] = snaps[n]]_vars

\* C10: no invocation ends in an exception of the gate, and a gate that found
\* no parseable timestamp has returned true.
C10_GateNeverRaises ==
    \A p \in Procs :
        /\ (pc[p] = "failed" => loc[p].gate # <<>>)
        /\ (loc[p].gate # <<>> /\ loc[p].lastRun = <<>>) => loc[p].gate = <<TRUE>>

\* C11: after write_last_run_time(t) has returned, read_last_run_time() on the
\* file returns exactly t.
C11_CommitReadRoundTrip ==
    \A p \in Procs :
        pc[p] = "done" => ReadLastRunTime(stateFile) = loc[p].runTime

\* A timestamp with the fraction .000001 was committed over an older one.
C11_Witness ==
    \E p \in Procs :
        /\ pc[p] = "done"
        /\ loc[p].runTime[1].microsecond = 1
        /\ hist[p].stateBefore.exists

\* C12: an invocation whose credential check found a credential missing has
\* until then fetched nothing, created no directory, written no snapshot
\* file and opened no connection.
C12_MissingCredentialsBeforeAnyIO ==
    \A p \in Procs :
        (hist[p].credChecks > 0 /\ ~loc[p].creds) =>
            /\ hist[p].fetches = 0
            /\ hist[p].mkdirs = 0
            /\ hist[p].snapWrites = 0
            /\ hist[p].connects = 0

\* C13: in the invocation that follows a failed cycle, once the gate has been
\* evaluated it has returned true, and the invocation has gone on to the
\* fetch (and from there to the snapshot and the load, as far as it got).
C13_FailedCycleIsRetried ==
    \A p \in Procs :
        (hist[p].retry /\ pc[p] \notin {"read_last_run", "should_run"}) =>
            /\ loc[p].gate = <<TRUE>>
            /\ pc[p] # "skipped"
            /\ (pc[p] # "fetch" => hist[p].fetches = 1)
            /\ (pc[p] \in {"credentials", "connect", "create_table", "write_pandas",
                           "finally", "commit", "commit_write", "done"}
                  => hist[p].snapWrites = 1)
            /\ (pc[p] \in {"commit", "commit_write", "done"} => hist[p].loadAttempts = 1)

\* After a cycle that failed with a prior run on record, and after the clock
\* has advanced, the next invocation has completed the whole cycle.
C13_Witness ==
    \E p \in Procs :
        /\ hist[p].retry /\ pc[p] = "done"
        /\ loc[p].lastRun # <<>>
        /\ ticks = MaxTicks

\* The process of p has ended by itself (it was not killed).
Exited(p) == pc[p] \in {"skipped", "done", "failed"}

\* The kinds of failure of an invocation, from what it did.
CredentialFailure(p) == hist[p].credChecks > 0 /\ ~loc[p].creds
FetchFailure(p) == hist[p].fetches > 0 /\ ~hist[p].fetchOk
SnapshotFailure(p) == hist[p].snapWrites > 0 /\ ~hist[p].snapOk
LoadFailure(p) == hist[p].loadFailed
StateWriteFailure(p) == hist[p].commits > 0 /\ ~hist[p].commitOk

\* C14: a process that has ended has exit code 0 exactly when the gate said
\* not due or the cycle went through to the completed commit, and a non-zero
\* exit code after a credential, fetch, snapshot-write, load or state-write
\* failure.
C14_ExitCodeZeroIffSkippedOrCompleted ==
    \A p \in Procs :
        Exited(p) =>
            /\ loc[p].exitCode = 0 <=> (loc[p].gate = <<FALSE>> \/ hist[p].commitOk)
            /\ (CredentialFailure(p) \/ FetchFailure(p) \/ SnapshotFailure(p)
                  \/ LoadFailure(p) \/ StateWriteFailure(p)) => loc[p].exitCode # 0

\* An invocation whose load succeeded and whose state write failed has ended.
C14_Witness ==
    \E p \in Procs :
        /\ Exited(p) /\ StateWriteFailure(p) /\ hist[p].loadOk
        /\ pc[p] = "failed" /\ loc[p].exitCode = 1
        /\ stateFile.exists /\ stateFile.content # <<>>

\* The log records of p at the given level.
LoggedAt(p, level) == {i \in DOMAIN hist[p].log : hist[p].log[i].level = level}

\* The completion message of line 166 is in the log of p.
CompletionLogged(p) == \E i \in DOMAIN hist[p].log : hist[p].log[i].line = 166

\* C15: an invocation whose state write failed after a successful load has
\* ended as failed, has not logged the completion message, and has logged the
\* failure at the highest severity (CRITICAL).
C15_StateWriteFailurePropagatesAndIsLogged ==
    \A p \in Procs :
        (Exited(p) /\ hist[p].loadOk /\ StateWriteFailure(p)) =>
            /\ pc[p] = "failed"
            /\ ~CompletionLogged(p)
            /\ LoggedAt(p, "CRITICAL") # {}

\* The part of C15 the script keeps: the failed state write ends the
\* invocation as failed and the completion message is not logged.
StateWriteFailurePropagates ==
    \A p \in Procs :
        (Exited(p) /\ hist[p].loadOk /\ StateWriteFailure(p)) =>
            pc[p] = "failed" /\ loc[p].exitCode = 1 /\ ~CompletionLogged(p)

\* C16: within one invocation each step is taken at most once and only after
\* the step before it succeeded: the fetch after the gate returned true, the
\* snapshot write after the fetch, the load (credentials, connect, bulk load)
\* after the snapshot write, the commit after the load; after a failed
\* snapshot write there is no load and no commit.
C16_StepsInOrder ==
    \A p \in Procs :
        /\ hist[p].fetches <= 1 /\ hist[p].snapWrites <= 1
        /\ hist[p].connects <= 1 /\ hist[p].loadAttempts <= 1 /\ hist[p].commits <= 1
        /\ hist[p].fetches > 0 => loc[p].gate = <<TRUE>>
        /\ (hist[p].mkdirs > 0 \/ hist[p].snapWrites > 0) => hist[p].fetchOk
        /\ (hist[p].credChecks > 0 \/ hist[p].connects > 0 \/ hist[p].loadAttempts > 0
              \/ hist[p].loadOk \/ hist[p].loadFailed) => hist[p].snapOk
        /\ hist[p].commits > 0 => (hist[p].loadOk /\ ~hist[p].loadFailed)
        /\ SnapshotFailure(p) =>
              /\ hist[p].connects = 0 /\ hist[p].loadAttempts = 0 /\ hist[p].commits = 0
              /\ pc[p] \in {"failed", "crashed"}

\* A snapshot write has failed leaving part of a file, and the invocation ended.
C16_Witness ==
    \E p \in Procs :
        /\ SnapshotFailure(p) /\ pc[p] = "failed"
        /\ hist[p].fetchOk /\ snaps # hist[p].snapsBefore

\* A whole cycle has gone through all five steps.
C16_WitnessAllSteps ==
    \E p \in Procs :
        /\ pc[p] = "done" /\ hist[p].fetches = 1 /\ hist[p].snapWrites = 1
        /\ hist[p].loadAttempts = 1 /\ hist[p].commits = 1

\* Both p and q evaluated the gate before the other began to write the state
\* file, and both have run to the end of the script.
BothPassedGateBeforeCommit(p, q) ==
    /\ p # q
    /\ pc[p] = "done" /\ pc[q] = "done"
    /\ loc[p].gate = <<TRUE>> /\ loc[q].gate = <<TRUE>>
    /\ hist[p].gateBeforePeerCommit /\ hist[q].gateBeforePeerCommit

\* C17: nothing excludes one invocation while another is between its gate
\* and its commit: two overlapping invocations that both passed the gate
\* before either began its commit decided on the same last run time, and when
\* both have run to the end each has loaded the dataset into the warehouse
\* and each has written last_run_timestamp.
C17_OverlapBothLoadBothCommit ==
    \A p, q \in Procs :
        BothPassedGateBeforeCommit(p, q) =>
            /\ loc[p].lastRun = loc[q].lastRun
            /\ hist[p].loadOk /\ hist[q].loadOk
            /\ \E i, j \in DOMAIN loads :
                  i # j /\ loads[i].by = p /\ loads[j].by = q
            /\ hist[p].commitOk /\ hist[q].commitOk
            /\ loc[p].runTime # <<>> /\ loc[q].runTime # <<>>

\* The interleaving of C17 has happened: the warehouse has two loads at most
\* a second apart, one by each process, and the state file holds the run time
\* of one of the two.
C17_Witness ==
    \E p, q \in Procs :
        /\ BothPassedGateBeforeCommit(p, q)
        /\ Len(loads) = 2 /\ loads[1].by # loads[2].by
        /\ loads[2].at.sec <= loads[1].at.sec + 1
        /\ stateFile.content = IsoFormat(loc[q].runTime[1])

\* load_data_to_snowflake has been entered and left by p: it returned to line
\* 165 or ended the process through sys.exit(1).
LeftLoad(p) ==
    /\ hist[p].connects > 0
    /\ pc[p] \in {"commit", "commit_write", "done", "failed"}

\* C18: once load_data_to_snowflake has been left, whether it returned or
\* exited, no cursor and no connection it opened is still open.
C18_HandlesClosedOnEveryWayOut ==
    \A p \in Procs :
        LeftLoad(p) =>
            /\ loc[p].ctx \in {"none", "closed"}
            /\ loc[p].cs \in {"none", "closed"}
            /\ hist[p].loadAttempts > 0 => (loc[p].ctx = "closed" /\ loc[p].cs = "closed")

\* The load was left through the except clause with the connection opened
\* and no cursor made, and the connection is closed.
C18_Witness ==
    \E p \in Procs :
        /\ LeftLoad(p) /\ hist[p].loadFailed /\ pc[p] = "failed"
        /\ loc[p].ctx = "closed" /\ loc[p].cs = "none"

\* The persisted last_run_timestamp: what read_last_run_time() returns on
\* the file as it is.
LastRunTimestamp(f) == ReadLastRunTime(f)

\* C19: a step changes the persisted last_run_timestamp only inside a commit,
\* never to an earlier instant, and the value a commit leaves in the file is
\* at least 30 days later than the parseable value the invocation found.
C19_LastRunNeverDecreases ==
    [][LET old == LastRunTimestamp(stateFile)
           new == LastRunTimestamp(stateFile')
       IN old # new =>
            \E p \in Procs :
                /\ pc[p] \in {"commit", "commit_write"}
                /\ (old # <<>> /\ new # <<>>) =>
                       ClockLeq(DtClock(old[1]), DtClock(new[1]))
                /\ (loc[p].lastRun # <<>> /\ new # <<>>) =>
                       ElapsedThirtyDays(loc[p].lastRun[1], DtClock(new[1]))]_vars

\* The part of C19 that holds whatever happens to the write: the timestamp
\* changes only inside a commit and never to an earlier instant, and a commit
\* that completes leaves a value at least 30 days later than the one found.
LastRunNeverDecreasesCompleted ==
    [][LET old == LastRunTimestamp(stateFile)
           new == LastRunTimestamp(stateFile')
       IN old # new =>
            \E p \in Procs :
                /\ pc[p] \in {"commit", "commit_write"}
                /\ (old # <<>> /\ new # <<>>) =>
                       ClockLeq(DtClock(old[1]), DtClock(new[1]))
                /\ (loc[p].lastRun # <<>> /\ pc'[p] = "done") =>
                       ElapsedThirtyDays(loc[p].lastRun[1], DtClock(new[1]))]_vars

====
